---- MODULE Spec2Model ----
(***************************************************************************)
(* A model of ghosttify (src/src/main.rs): the translation of GNOME        *)
(* Terminal shortcuts to Ghostty syntax, the resolution of the Ghostty     *)
(* configuration tree, and the merge of the translated shortcuts into the  *)
(* override file "gnome-shortcuts".                                        *)
(*                                                                         *)
(* Strings are sequences of symbols.  The symbols the code inspects one by *)
(* one ("<", ">", "+", "=", the double quote, the blank, the line feed)    *)
(* are symbols of their own; every other symbol is a word standing for a   *)
(* run of ordinary characters (such as "keybind", "ctrl", "Primary").      *)
(* The empty string is << >>.  A HashMap<String, String> is a function     *)
(* whose domain is a set of strings.  An Option<T> is a sequence of length *)
(* at most one.                                                            *)
(***************************************************************************)
EXTENDS Integers, Sequences, FiniteSets, TLC

VARIABLES
    table,                \* the mapping data bundled as MAP_STRING: [keys, actions]
    args,                 \* the parsed command line (struct Cli)
    gnome_shortcuts,      \* main: what get_gnome_shortcuts returned
    converted_shortcuts,  \* main: what convert_gnome_to_ghostty_shortcuts returned
    ghostty_shortcuts,    \* main: what get_ghostty_shortcuts returned
    config_file_paths,    \* get_ghostty_shortcuts: what get_config_files returned
    fs,                   \* the directory <config_dir>/ghostty: file name -> content
    written,              \* update_ghostty_config: the keybind lines written by this run
    pc,                   \* the position of main
    runs                  \* how many times the program has been started

vars == <<table, args, gnome_shortcuts, converted_shortcuts, ghostty_shortcuts,
          config_file_paths, fs, written, pc, runs>>

----------------------------------------------------------------------------
(* Bounds of the model *)

\* the largest number of bracketed tokens of a drawn GNOME binding
MaxMods == 2
\* the largest number of lines of a drawn configuration file
MaxLines == 2
\* the largest number of times the program is run against one directory
MaxRuns == 2
\* the largest number of files get_config_files is followed through before
\* the model stops following an include cycle
MaxDiscovered == 7

----------------------------------------------------------------------------
(* Options, maps and strings *)

None == << >>
Some(x) == <<x>>

EmptyMap == [k \in {} |-> << >>]

\* HashMap::insert
Insert(m, k, v) == [x \in (DOMAIN m) \cup {k} |-> IF x = k THEN v ELSE m[x]]

SP == " "
EQ == "="
QUOTE == "\""
LF == "\n"
PLUS == "+"

DISABLED == <<"disabled">>

RECURSIVE Concat(_)
\* the concatenation of a sequence of strings
Concat(ss) == IF ss = << >> THEN << >> ELSE Head(ss) \o Concat(Tail(ss))

IsPrefix(p, s) == Len(p) <= Len(s) /\ SubSeq(s, 1, Len(p)) = p

IsSuffix(p, s) == Len(p) <= Len(s) /\ SubSeq(s, Len(s) - Len(p) + 1, Len(s)) = p

----------------------------------------------------------------------------
(* Shortcut translation *)

RECURSIVE SplitFrom(_, _)
SplitFrom(s, cur) ==
    IF s = << >> THEN <<cur>>
    ELSE IF Head(s) = ">" \/ Head(s) = "<"
         THEN <<cur>> \o SplitFrom(Tail(s), << >>)
         ELSE SplitFrom(Tail(s), Append(cur, Head(s)))

\* str::split(&['>', '<'][..]): the pieces between the delimiters, the empty
\* ones included
Split(s) == SplitFrom(s, << >>)

\* the closure of filter_map (lines 55-68): the Ghostty key of one GNOME key
MapKey(key, keys) ==
    IF key \in DOMAIN keys
    THEN IF keys[key] = << >> \/ keys[key] = DISABLED THEN None ELSE Some(keys[key])
    ELSE Some(key)

RECURSIVE FilterMapKeys(_, _)
\* filter_map over the keys, in order
FilterMapKeys(pieces, keys) ==
    IF pieces = << >> THEN << >>
    ELSE MapKey(Head(pieces), keys) \o FilterMapKeys(Tail(pieces), keys)

RECURSIVE FoldPlusReversed(_, _)
\* FoldPlus as it would be with the operands swapped, |acc, s| "+" + &s + acc
FoldPlusReversed(acc, ss) ==
    IF ss = << >> THEN acc
    ELSE FoldPlusReversed(<<PLUS>> \o Head(ss) \o acc, Tail(ss))

RECURSIVE FoldPlus(_, _)
\* fold(String::new(), |acc, s| acc + "+" + &s)
FoldPlus(acc, ss) ==
    IF ss = << >> THEN acc
    ELSE FoldPlus(acc \o <<PLUS>> \o Head(ss), Tail(ss))

\* convert_gnome_shortcut_to_ghostty as it would be without the filter of line 54
convert_keeping_empty_pieces(gnome_shortcut, keys) ==
    LET ghostty_shortcut == FoldPlus(<< >>, FilterMapKeys(Split(gnome_shortcut), keys))
    IN  IF ghostty_shortcut = << >> THEN None ELSE Some(Tail(ghostty_shortcut))

\* lines 48-75: the Ghostty binding of a GNOME binding, if it has one
convert_gnome_shortcut_to_ghostty(gnome_shortcut, keys) ==
    LET nonempty == SelectSeq(Split(gnome_shortcut), LAMBDA key : key # << >>)
        ghostty_shortcut == FoldPlus(<< >>, FilterMapKeys(nonempty, keys))
    IN  IF ghostty_shortcut = << >> THEN None ELSE Some(Tail(ghostty_shortcut))

\* ActionLookup as it would be without the test of line 98
ActionLookupNoEmptyCheck(action, actions) ==
    IF action \in DOMAIN actions THEN Some(actions[action]) ELSE None

\* lines 95-103: the Ghostty action of a GNOME action, if it has one
ActionLookup(action, actions) ==
    IF action \in DOMAIN actions
    THEN IF actions[action] = << >> THEN None ELSE Some(actions[action])
    ELSE None

\* the closure of flat_map: zero or one (action, binding) pair of Ghostty
TranslateEntry(action, binding, tbl) ==
    LET ghostty_action == ActionLookup(action, tbl.actions)
        ghostty_shortcut == convert_gnome_shortcut_to_ghostty(binding, tbl.keys)
    IN  IF ghostty_action = None THEN None
        ELSE IF ghostty_shortcut = None THEN None
        ELSE Some(<<ghostty_action[1], ghostty_shortcut[1]>>)

\* The maps collect() can build.  The entries are inserted in the iteration
\* order of the source HashMap, which is arbitrary: when two GNOME actions
\* have the same Ghostty action, either binding can be the one that stays.
convert_gnome_to_ghostty_shortcuts(gnome, tbl) ==
    LET items == {it \in {TranslateEntry(a, gnome[a], tbl) : a \in DOMAIN gnome} : it # None}
        targets == {it[1][1] : it \in items}
    IN  {m \in [targets -> {it[1][2] : it \in items}] :
            \A t \in targets : Some(<<t, m[t]>>) \in items}

----------------------------------------------------------------------------
(* Configuration files *)

CONFIG == <<"config">>
GNOME_SHORTCUTS == <<"gnome-shortcuts">>

\* Path::exists, and whether File::open succeeds
Exists(dir, name) == name \in DOMAIN dir

RECURSIVE LinesFrom(_, _)
LinesFrom(s, cur) ==
    IF s = << >> THEN (IF cur = << >> THEN << >> ELSE <<cur>>)
    ELSE IF Head(s) = LF
         THEN <<cur>> \o LinesFrom(Tail(s), << >>)
         ELSE LinesFrom(Tail(s), Append(cur, Head(s)))

\* BufRead::lines: the lines of a content without their line feeds; a last
\* line that no line feed ends is a line too
Lines(content) == LinesFrom(content, << >>)

\* The mode of a file is kept with its content: a content that starts with
\* DENIED is that of a file that exists (Path::exists) and whose File::open
\* for reading fails.  Such files are drawn for resolution only.
DENIED == "PermissionDenied"
Readable(content) == content = << >> \/ Head(content) # DENIED
Deny(content) == <<DENIED>> \o content

\* read_lines(..).map_while(Result::ok), and no line when the file cannot be opened
read_lines(dir, name) ==
    IF Exists(dir, name) /\ Readable(dir[name]) THEN Lines(dir[name]) ELSE << >>

RECURSIVE SkipSpaces(_, _)
\* \s*, greedy: the first position from i on that holds no blank
SkipSpaces(line, i) ==
    IF i <= Len(line) /\ line[i] = SP THEN SkipSpaces(line, i + 1) ELSE i

RECURSIVE NextQuote(_, _)
\* the first position from i on that holds a double quote, Len(line) + 1 if none
NextQuote(line, i) ==
    IF i <= Len(line) /\ line[i] # QUOTE THEN NextQuote(line, i + 1) ELSE i

\* the position of the "=" that `word\s*=` finds when word is at position i, 0 if none
EqAfter(line, i, word) ==
    IF i <= Len(line) /\ line[i] = word
    THEN LET e == SkipSpaces(line, i + 1)
         IN  IF e <= Len(line) /\ line[e] = EQ THEN e ELSE 0
    ELSE 0

\* config-file\s*=\s*(?:"([^"]+)"|([^"]+))\s* matched from position i: the
\* capture the code reads (group 1 if it took part, group 2 otherwise).  The
\* blanks after "=" are taken greedily; when neither alternative matches
\* behind them and there is a blank, [^"]+ starts at the last blank instead.
ConfigFileCaptureAt(line, i) ==
    LET e == EqAfter(line, i, "config-file")
        p == SkipSpaces(line, e + 1)
        q == NextQuote(line, p + 1)
    IN  IF e = 0 THEN None
        ELSE IF p <= Len(line) /\ line[p] = QUOTE /\ q <= Len(line) /\ q >= p + 2
             THEN Some(SubSeq(line, p + 1, q - 1))
        ELSE IF p <= Len(line) /\ line[p] # QUOTE
             THEN Some(SubSeq(line, p, NextQuote(line, p) - 1))
        ELSE IF p - 1 > e
             THEN Some(SubSeq(line, p - 1, NextQuote(line, p - 1) - 1))
        ELSE None

RECURSIVE ConfigFileCaptureFrom(_, _)
ConfigFileCaptureFrom(line, i) ==
    IF i > Len(line) THEN None
    ELSE IF ConfigFileCaptureAt(line, i) # None THEN ConfigFileCaptureAt(line, i)
    ELSE ConfigFileCaptureFrom(line, i + 1)

\* config_file_re.captures(&line): the leftmost match
ConfigFileCapture(line) == ConfigFileCaptureFrom(line, 1)

RECURSIVE LastEq(_, _)
\* the last position of "=" in line[1..i], 0 if none
LastEq(line, i) ==
    IF i = 0 THEN 0 ELSE IF line[i] = EQ THEN i ELSE LastEq(line, i - 1)

\* keybind\s*=\s*(.*)=\s*(.*)\s* matched from position i: <<group 1, group 2>>.
\* The first (.*) is greedy, so it runs to the last "=" of the line.
KeybindCaptureAt(line, i) ==
    LET e == EqAfter(line, i, "keybind")
        l == LastEq(line, Len(line))
    IN  IF e = 0 \/ l <= e THEN None
        ELSE Some(<<SubSeq(line, SkipSpaces(line, e + 1), l - 1),
                    SubSeq(line, SkipSpaces(line, l + 1), Len(line))>>)

RECURSIVE KeybindCaptureFrom(_, _)
KeybindCaptureFrom(line, i) ==
    IF i > Len(line) THEN None
    ELSE IF KeybindCaptureAt(line, i) # None THEN KeybindCaptureAt(line, i)
    ELSE KeybindCaptureFrom(line, i + 1)

\* keybinding_re.captures(&line): the leftmost match
KeybindCapture(line) == KeybindCaptureFrom(line, 1)

\* config-file\s*=\s*gnome-shortcuts, re.is_match(&line)
IncludesOverride(line) ==
    \E i \in 1..Len(line) :
        LET e == EqAfter(line, i, "config-file")
            p == SkipSpaces(line, e + 1)
        IN  e # 0 /\ p <= Len(line) /\ line[p] = "gnome-shortcuts"

----------------------------------------------------------------------------
(* Configuration-tree resolution *)

RECURSIVE Included(_, _)
\* lines 151-160: the files the lines of one file add to the list and to the
\* queue, in line order
Included(dir, lines) ==
    IF lines = << >> THEN << >>
    ELSE LET cap == ConfigFileCapture(Head(lines))
         IN  (IF cap # None /\ Exists(dir, cap[1]) THEN cap ELSE << >>)
             \o Included(dir, Tail(lines))

RECURSIVE DiscoverDepthFirst(_, _, _)
\* Discover as it would be with push_front in place of push_back
DiscoverDepthFirst(dir, stack, paths) ==
    IF stack = << >> THEN [returns |-> TRUE, paths |-> paths]
    ELSE IF Len(paths) > MaxDiscovered THEN [returns |-> FALSE, paths |-> paths]
    ELSE LET found == Included(dir, read_lines(dir, Head(stack)))
         IN  DiscoverDepthFirst(dir, found \o Tail(stack), paths \o found)

RECURSIVE Discover(_, _, _)
\* lines 147-162: the loop over the queue.  The loop has no guard against a
\* file met twice; the model stops following it, without a result, once the
\* list is longer than MaxDiscovered.
Discover(dir, stack, paths) ==
    IF stack = << >> THEN [returns |-> TRUE, paths |-> paths]
    ELSE IF Len(paths) > MaxDiscovered THEN [returns |-> FALSE, paths |-> paths]
    ELSE LET found == Included(dir, read_lines(dir, Head(stack)))
         IN  Discover(dir, Tail(stack) \o found, paths \o found)

\* lines 140-165: whether the loop ends, and the list of files
get_config_files(dir) == Discover(dir, <<CONFIG>>, <<CONFIG>>)

RECURSIVE FoldKeybindsFirstWins(_, _)
\* FoldKeybinds as it would be if an action already met were left as it is
FoldKeybindsFirstWins(shortcuts, lines) ==
    IF lines = << >> THEN shortcuts
    ELSE LET cap == KeybindCapture(Head(lines))
         IN  FoldKeybindsFirstWins(
                 IF cap = None \/ cap[1][2] \in DOMAIN shortcuts THEN shortcuts
                 ELSE Insert(shortcuts, cap[1][2], cap[1][1]),
                 Tail(lines))

RECURSIVE FoldKeybinds(_, _)
\* lines 181-185: the keybind directives of the lines of one file, inserted
\* in line order
FoldKeybinds(shortcuts, lines) ==
    IF lines = << >> THEN shortcuts
    ELSE LET cap == KeybindCapture(Head(lines))
         IN  FoldKeybinds(
                 IF cap = None THEN shortcuts
                 ELSE Insert(shortcuts, cap[1][2], cap[1][1]),
                 Tail(lines))

RECURSIVE FoldFilesStopAtError(_, _, _)
\* FoldFiles as it would be if a file that cannot be opened ended the loop
FoldFilesStopAtError(dir, shortcuts, paths) ==
    IF paths = << >> THEN shortcuts
    ELSE IF Exists(dir, Head(paths)) /\ ~Readable(dir[Head(paths)]) THEN shortcuts
    ELSE FoldFilesStopAtError(dir, FoldKeybinds(shortcuts, read_lines(dir, Head(paths))),
                              Tail(paths))

RECURSIVE FoldFiles(_, _, _)
\* lines 177-187: the files of the list, in list order
FoldFiles(dir, shortcuts, paths) ==
    IF paths = << >> THEN shortcuts
    ELSE FoldFiles(dir, FoldKeybinds(shortcuts, read_lines(dir, Head(paths))), Tail(paths))

\* lines 170-190
get_ghostty_shortcuts(dir) == FoldFiles(dir, EmptyMap, get_config_files(dir).paths)

----------------------------------------------------------------------------
(* Merge *)

\* b"\n# Added by ghosttify\n"
MARKER == <<LF, "#", SP, "Added", SP, "by", SP, "ghosttify", LF>>

\* b"config-file=gnome-shortcuts\n"
INCLUDE == <<"config-file", EQ, "gnome-shortcuts", LF>>

\* format!("keybind = {}={}\n", binding, action)
KeybindLine(binding, action) ==
    <<"keybind", SP, EQ, SP>> \o binding \o <<EQ>> \o action \o <<LF>>

\* lines 253-257: the keys of the reverse map, bound only with avoid_conflict
Keybindings(ghostty, avoid_conflict) ==
    IF avoid_conflict THEN {ghostty[a] : a \in DOMAIN ghostty} ELSE {}

\* ShouldWrite as it would be without the test of the binding
ShouldWriteActionOnly(action, binding, ghostty, avoid_conflict) ==
    \/ avoid_conflict /\ action \notin DOMAIN ghostty
    \/ ~avoid_conflict

\* line 260: whether one converted shortcut is written
ShouldWrite(action, binding, ghostty, avoid_conflict) ==
    \/ avoid_conflict /\ (/\ action \notin DOMAIN ghostty
                          /\ binding \notin Keybindings(ghostty, avoid_conflict))
    \/ ~avoid_conflict

\* the orders in which a HashMap can hand out its keys
Orders(m) ==
    {o \in [1..Cardinality(DOMAIN m) -> DOMAIN m] :
        \A i, j \in DOMAIN o : i # j => o[i] # o[j]}

\* lines 259-265: the lines written when the converted shortcuts come in this order
WrittenLines(order, converted, ghostty, avoid_conflict) ==
    LET kept == SelectSeq(order,
                    LAMBDA a : ShouldWrite(a, converted[a], ghostty, avoid_conflict))
    IN  [i \in 1..Len(kept) |-> KeybindLine(converted[kept[i]], kept[i])]

\* line 232-235: whether a line of the root file matches the include pattern
ConfigFound(dir) ==
    LET lines == Lines(dir[CONFIG])
    IN  \E i \in 1..Len(lines) : IncludesOverride(lines[i])

\* lines 239-251: the directory once the override file is open.  Without a
\* match the two lines are appended to the root file and File::create
\* makes the override file empty; with a match the override file is opened
\* as it is.
OpenOverride(dir) ==
    IF ConfigFound(dir) THEN dir
    ELSE Insert(Insert(dir, CONFIG, dir[CONFIG] \o MARKER \o INCLUDE),
                GNOME_SHORTCUTS, << >>)

\* OpenRoot as it would be if the root file were opened with create(true)
OpenRootCreating(dir) ==
    Some(IF Exists(dir, CONFIG) THEN dir ELSE Insert(dir, CONFIG, << >>))

\* lines 226-230: the root file is opened for append and read, without
\* create; a missing root file is the panic "File Error"
OpenRoot(dir) == IF Exists(dir, CONFIG) THEN Some(dir) ELSE None

\* The outcomes of update_ghostty_config: it panics ("File Error") when the
\* root file is missing, or when the root file matches and the override file
\* is missing; otherwise the lines are appended in the order the HashMap
\* hands out the converted shortcuts.
update_ghostty_config(dir, converted, ghostty, avoid_conflict) ==
    LET root == OpenRoot(dir)
    IN  IF root = None
        THEN {[panicked |-> TRUE, dir |-> dir, written |-> << >>]}
        ELSE IF ConfigFound(root[1]) /\ ~Exists(root[1], GNOME_SHORTCUTS)
        THEN {[panicked |-> TRUE, dir |-> root[1], written |-> << >>]}
        ELSE LET opened == OpenOverride(root[1])
             IN  {[panicked |-> FALSE,
                   dir |-> Insert(opened, GNOME_SHORTCUTS,
                                  opened[GNOME_SHORTCUTS] \o Concat(w)),
                   written |-> w] :
                    w \in {WrittenLines(o, converted, ghostty, avoid_conflict) :
                              o \in Orders(converted)}}

----------------------------------------------------------------------------
(* main *)

\* struct Cli.  The flags ghostty and gnome only select what lines 281-284
\* and 287-290 print; nothing is read back from the terminal, and the model
\* leaves the flags and the printing out.
ArgsSet == [apply : BOOLEAN, avoid_conflict : BOOLEAN]

\* lines 279-280
Convert ==
    /\ pc = "start"
    /\ converted_shortcuts' \in convert_gnome_to_ghostty_shortcuts(gnome_shortcuts, table)
    /\ pc' = "converted"
    /\ UNCHANGED <<table, args, gnome_shortcuts, ghostty_shortcuts, config_file_paths,
                   fs, written, runs>>

\* line 286.  When get_config_files does not return, main stays in it.
Resolve ==
    /\ pc = "converted"
    /\ LET found == get_config_files(fs)
       IN  IF found.returns
           THEN /\ config_file_paths' = found.paths
                /\ ghostty_shortcuts' = get_ghostty_shortcuts(fs)
                /\ pc' = "resolved"
           ELSE /\ pc' = "looping"
                /\ UNCHANGED <<config_file_paths, ghostty_shortcuts>>
    /\ UNCHANGED <<table, args, gnome_shortcuts, converted_shortcuts, fs, written, runs>>

\* ApplyRequested as it would be if the flag were not read
ApplyRequestedAlways(a) == TRUE

\* line 292
ApplyRequested(a) == a.apply

\* lines 292-295
Apply ==
    /\ pc = "resolved"
    /\ IF ApplyRequested(args)
       THEN \E out \in update_ghostty_config(fs, converted_shortcuts, ghostty_shortcuts,
                                             args.avoid_conflict) :
                /\ fs' = out.dir
                /\ written' = out.written
                /\ pc' = IF out.panicked THEN "panicked" ELSE "done"
       ELSE /\ pc' = "done"
            /\ UNCHANGED <<fs, written>>
    /\ UNCHANGED <<table, args, gnome_shortcuts, converted_shortcuts, ghostty_shortcuts,
                   config_file_paths, runs>>

\* The program is started again on the directory the last run left, with a
\* new command line.
Again ==
    /\ pc \in {"done", "panicked"}
    /\ runs < MaxRuns
    /\ runs' = runs + 1
    /\ args' \in ArgsSet
    /\ converted_shortcuts' = EmptyMap
    /\ ghostty_shortcuts' = EmptyMap
    /\ config_file_paths' = << >>
    /\ written' = << >>
    /\ pc' = "start"
    /\ UNCHANGED <<table, gnome_shortcuts, fs>>

Next == Convert \/ Resolve \/ Apply \/ Again

----------------------------------------------------------------------------
(* The inputs drawn *)

\* the sequences over S of length n, and of length at most n
SeqsOfLen(S, n) == [1..n -> S]
SeqsUpTo(S, n) == UNION {SeqsOfLen(S, k) : k \in 0..n}

\* a file of these lines, each ended by a line feed
Terminated(ls) == Concat([i \in 1..Len(ls) |-> ls[i] \o <<LF>>])

\* the same file without its last line feed
Unterminated(ls) == SubSeq(Terminated(ls), 1, Len(Terminated(ls)) - 1)

(* GNOME bindings and mapping tables *)

KeyTokens == {<<"Primary">>, <<"Shift">>, <<"c">>, DISABLED}

\* what a token map can rename a token to
Renamed(t) ==
    CASE t = <<"Primary">> -> <<"ctrl">>
      [] t = <<"Shift">> -> <<"shift">>
      [] t = <<"c">> -> <<"key_c">>
      [] OTHER -> <<"off">>

\* A GNOME binding is drawn as up to MaxMods bracketed tokens and an optional
\* bare last token.
SrcShapes == [mods : SeqsUpTo(KeyTokens, MaxMods), base : SeqsUpTo(KeyTokens, 1)]

\* the tokens of a drawn binding, in order
TokensOf(shape) == shape.mods \o shape.base

\* the accelerator string of GNOME: <Token><Token>base
Serialize(shape) ==
    Concat([i \in 1..Len(shape.mods) |-> <<"<">> \o shape.mods[i] \o <<">">>])
    \o Concat(shape.base)

\* the token maps: every token is absent, or mapped to "", to "disabled" or to its new name
KeyMaps ==
    UNION {{m \in [D -> {<< >>, DISABLED} \cup {Renamed(t) : t \in D}] :
               \A t \in D : m[t] \in {<< >>, DISABLED, Renamed(t)}} :
           D \in SUBSET KeyTokens}

COPY == <<"copy">>
PASTE == <<"paste">>
COPY_TO_CLIPBOARD == <<"copy_to_clipboard">>
PASTE_FROM_CLIPBOARD == <<"paste_from_clipboard">>

\* the action maps drawn for the action copy: absent, mapped to "", mapped
ActionMaps == {EmptyMap, [a \in {COPY} |-> << >>], [a \in {COPY} |-> COPY_TO_CLIPBOARD]}

\* The table of the runs of main: the example of the specification, section 8.
SampleTable ==
    [keys |-> [t \in {<<"Primary">>, <<"Shift">>} |->
                  IF t = <<"Primary">> THEN <<"ctrl">> ELSE <<"shift">>],
     actions |-> [a \in {COPY, PASTE} |->
                  IF a = COPY THEN COPY_TO_CLIPBOARD ELSE PASTE_FROM_CLIPBOARD]]

\* the dconf sections of the runs of main: copy and paste, each unset or
\* bound to <Primary>c or <Primary>v
SampleBindings == {<<"<", "Primary", ">", "c">>, <<"<", "Primary", ">", "v">>}
GnomeInputs == UNION {[D -> SampleBindings] : D \in SUBSET {COPY, PASTE}}

(* Configuration directories *)

INC_OVERRIDE == <<"config-file", EQ, "gnome-shortcuts">>
INC_OVERRIDE_QUOTED == <<"config-file", SP, EQ, SP, QUOTE, "gnome-shortcuts", QUOTE>>
INC_OVERRIDE_OLD == <<"config-file", SP, EQ, SP, "gnome-shortcuts", "-old">>
KB_PASTE_V == <<"keybind", SP, EQ, SP, "ctrl", PLUS, "v", EQ, "paste_from_clipboard">>
KB_COPY_C == <<"keybind", SP, EQ, SP, "ctrl", PLUS, "c", EQ, "copy_to_clipboard">>

RootPool == {INC_OVERRIDE, INC_OVERRIDE_QUOTED, INC_OVERRIDE_OLD, KB_PASTE_V}
OverridePool == {KB_COPY_C, KB_PASTE_V}

\* the contents of a file of at most n lines of the pool, its last line ended or not
Contents(pool, n) ==
    {Terminated(ls) : ls \in SeqsUpTo(pool, n)}
    \cup {Unterminated(ls) : ls \in SeqsUpTo(pool, n) \ {<< >>}}

\* the directories of the runs of main: a root file or none, an override file or none
MergeDirs ==
    LET roots == {[n \in {CONFIG} |-> c] : c \in Contents(RootPool, MaxLines)} \cup {EmptyMap}
        overrides == {[n \in {GNOME_SHORTCUTS} |-> c] : c \in Contents(OverridePool, MaxLines)}
                     \cup {EmptyMap}
    IN  {[n \in DOMAIN r \cup DOMAIN o |-> IF n \in DOMAIN r THEN r[n] ELSE o[n]] :
            r \in roots, o \in overrides}

Init ==
    /\ table = SampleTable
    /\ args \in ArgsSet
    /\ gnome_shortcuts \in GnomeInputs
    /\ converted_shortcuts = EmptyMap
    /\ ghostty_shortcuts = EmptyMap
    /\ config_file_paths = << >>
    /\ fs \in MergeDirs
    /\ written = << >>
    /\ pc = "start"
    /\ runs = 1

Spec == Init /\ [][Next]_vars

----------------------------------------------------------------------------
(* Translation alone: one GNOME shortcut under every drawn table *)

Preview == [apply |-> FALSE, avoid_conflict |-> FALSE]

InitTranslate ==
    /\ table \in [keys : KeyMaps, actions : ActionMaps]
    /\ args = Preview
    /\ gnome_shortcuts \in {[a \in {COPY} |-> Serialize(shape)] : shape \in SrcShapes}
    /\ converted_shortcuts = EmptyMap
    /\ ghostty_shortcuts = EmptyMap
    /\ config_file_paths = << >>
    /\ fs = EmptyMap
    /\ written = << >>
    /\ pc = "start"
    /\ runs = 1

NextTranslate == Convert

SpecTranslate == InitTranslate /\ [][NextTranslate]_vars

(* Translation of bindings and token maps that hold the delimiter *)

PlusTokens == {<<"Primary">>, <<"c">>, <<PLUS>>}

\* the bindings drawn over these tokens
PlusShapes == [mods : SeqsUpTo(PlusTokens, MaxMods), base : SeqsUpTo(PlusTokens, 1)]

\* the token maps: every token is absent, or mapped to "", to "disabled", to
\* its new name or to "+"
PlusKeyMaps ==
    UNION {{m \in [D -> {<< >>, DISABLED, <<PLUS>>} \cup {Renamed(t) : t \in D}] :
               \A t \in D : m[t] \in {<< >>, DISABLED, <<PLUS>>, Renamed(t)}} :
           D \in SUBSET PlusTokens}

InitPlus ==
    /\ table \in [keys : PlusKeyMaps, actions : {[a \in {COPY} |-> COPY_TO_CLIPBOARD]}]
    /\ args = Preview
    /\ gnome_shortcuts \in {[a \in {COPY} |-> Serialize(shape)] : shape \in PlusShapes}
    /\ converted_shortcuts = EmptyMap
    /\ ghostty_shortcuts = EmptyMap
    /\ config_file_paths = << >>
    /\ fs = EmptyMap
    /\ written = << >>
    /\ pc = "start"
    /\ runs = 1

SpecPlus == InitPlus /\ [][NextTranslate]_vars

----------------------------------------------------------------------------
(* Resolution alone: a root file and three files it can reach *)

FILE_A == <<"a">>
FILE_B == <<"b">>
FILE_C == <<"c">>

INC_A == <<"config-file", SP, EQ, SP, "a">>
INC_B_QUOTED == <<"config-file", SP, EQ, SP, QUOTE, "b", QUOTE>>
INC_C == <<"config-file", EQ, "c">>
KB_X_COPY == <<"keybind", SP, EQ, SP, "x", EQ, "copy">>
KB_Y_COPY == <<"keybind", SP, EQ, SP, "y", EQ, "copy">>
KB_X_PASTE == <<"keybind", SP, EQ, SP, "x", EQ, "paste">>

TreePool == {INC_A, INC_B_QUOTED, INC_C, KB_X_COPY, KB_Y_COPY, KB_X_PASTE}

\* the largest number of lines of a drawn configuration tree
MaxTreeLines == 4

TreeNames == <<CONFIG, FILE_A, FILE_B, FILE_C>>

\* the number of lines of a file that has l lines, or does not exist (-1)
LinesIn(l) == IF l > 0 THEN l ELSE 0

RECURSIVE TotalLines(_, _)
\* the number of lines of the first n files
TotalLines(lens, n) == IF n = 0 THEN 0 ELSE LinesIn(lens[n]) + TotalLines(lens, n - 1)

\* how many lines each file of a tree has, -1 for a file that does not exist;
\* the root file exists
TreeLens(names, total) ==
    {l \in [DOMAIN names -> -1..MaxLines] : l[1] >= 0 /\ TotalLines(l, Len(names)) <= total}

\* the directory that holds these lines in these files
TreeDir(names, lens, body) ==
    [n \in {names[i] : i \in {j \in DOMAIN names : lens[j] >= 0}} |->
        Terminated(body[CHOOSE i \in DOMAIN names : names[i] = n])]

InitResolve ==
    /\ table = SampleTable
    /\ args = Preview
    /\ gnome_shortcuts = EmptyMap
    /\ converted_shortcuts = EmptyMap
    /\ ghostty_shortcuts = EmptyMap
    /\ config_file_paths = << >>
    /\ \E lens \in TreeLens(TreeNames, MaxTreeLines) :
         \E r \in SeqsOfLen(TreePool, LinesIn(lens[1])),
            a \in SeqsOfLen(TreePool, LinesIn(lens[2])),
            b \in SeqsOfLen(TreePool, LinesIn(lens[3])),
            c \in SeqsOfLen(TreePool, LinesIn(lens[4])) :
                fs = TreeDir(TreeNames, lens, <<r, a, b, c>>)
    /\ written = << >>
    /\ pc = "converted"
    /\ runs = 1

NextResolve == Resolve

SpecResolve == InitResolve /\ [][NextResolve]_vars

----------------------------------------------------------------------------
(* Discovery alone: a root file and four files it can reach, of include
   directives only *)

FILE_D == <<"d">>

INC_D == <<"config-file", EQ, SP, "d">>

IncludePool == {INC_A, INC_B_QUOTED, INC_C, INC_D}

\* the largest number of include directives of a drawn tree
MaxIncludes == 5

DiscoverNames == <<CONFIG, FILE_A, FILE_B, FILE_C, FILE_D>>

InitDiscover ==
    /\ table = SampleTable
    /\ args = Preview
    /\ gnome_shortcuts = EmptyMap
    /\ converted_shortcuts = EmptyMap
    /\ ghostty_shortcuts = EmptyMap
    /\ config_file_paths = << >>
    /\ \E lens \in TreeLens(DiscoverNames, MaxIncludes) :
         \E r \in SeqsOfLen(IncludePool, LinesIn(lens[1])),
            a \in SeqsOfLen(IncludePool, LinesIn(lens[2])),
            b \in SeqsOfLen(IncludePool, LinesIn(lens[3])),
            c \in SeqsOfLen(IncludePool, LinesIn(lens[4])),
            d \in SeqsOfLen(IncludePool, LinesIn(lens[5])) :
                fs = TreeDir(DiscoverNames, lens, <<r, a, b, c, d>>)
    /\ written = << >>
    /\ pc = "converted"
    /\ runs = 1

SpecDiscover == InitDiscover /\ [][NextResolve]_vars

(* Resolution of trees with files that cannot be opened *)

DeniedPool == {INC_A, INC_B_QUOTED, KB_X_COPY, KB_Y_COPY, KB_X_PASTE}

DeniedNames == <<CONFIG, FILE_A, FILE_B>>

\* the directory in which the files of this set cannot be opened
DenySome(dir, denied) ==
    [n \in DOMAIN dir |-> IF n \in denied THEN Deny(dir[n]) ELSE dir[n]]

\* the directory in which every file that cannot be opened is an empty file
Emptied(dir) ==
    [n \in DOMAIN dir |-> IF Readable(dir[n]) THEN dir[n] ELSE << >>]

\* the files of the directory that cannot be opened
Unreadable(dir) == {n \in DOMAIN dir : ~Readable(dir[n])}

\* A tree of up to three files of which at least one cannot be opened.
InitDenied ==
    /\ table = SampleTable
    /\ args = Preview
    /\ gnome_shortcuts = EmptyMap
    /\ converted_shortcuts = EmptyMap
    /\ ghostty_shortcuts = EmptyMap
    /\ config_file_paths = << >>
    /\ \E lens \in TreeLens(DeniedNames, MaxTreeLines) :
         \E r \in SeqsOfLen(DeniedPool, LinesIn(lens[1])),
            a \in SeqsOfLen(DeniedPool, LinesIn(lens[2])),
            b \in SeqsOfLen(DeniedPool, LinesIn(lens[3])) :
                LET dir == TreeDir(DeniedNames, lens, <<r, a, b>>)
                IN  \E denied \in SUBSET DOMAIN dir \ {{}} :
                        fs = DenySome(dir, denied)
    /\ written = << >>
    /\ pc = "converted"
    /\ runs = 1

SpecDenied == InitDenied /\ [][NextResolve]_vars

----------------------------------------------------------------------------
(* Runs of main on a tree: the root file, the override file, a file a the
   root file can include and a file b that a can include *)

KB_X_COPY_TO_CLIPBOARD == <<"keybind", SP, EQ, SP, "x", EQ, "copy_to_clipboard">>

\* the file of these lines, or no file
FileOrNone(name, bodies) ==
    {[n \in {name} |-> Terminated(ls)] : ls \in bodies} \cup {EmptyMap}

\* the directory that holds the files of both
Merged(d, e) == [n \in DOMAIN d \cup DOMAIN e |-> IF n \in DOMAIN d THEN d[n] ELSE e[n]]

NestedDirs ==
    {Merged(Merged([n \in {CONFIG} |-> Terminated(r)], o), Merged(a, b)) :
        r \in SeqsUpTo({INC_A, INC_OVERRIDE}, MaxLines),
        o \in FileOrNone(GNOME_SHORTCUTS, SeqsUpTo({KB_COPY_C}, 1)),
        a \in FileOrNone(FILE_A, SeqsUpTo({INC_B_QUOTED, KB_X_COPY_TO_CLIPBOARD}, MaxLines)),
        b \in FileOrNone(FILE_B, SeqsUpTo({KB_X_COPY_TO_CLIPBOARD}, 1))}

InitNested ==
    /\ table = SampleTable
    /\ args \in ArgsSet
    /\ gnome_shortcuts \in GnomeInputs
    /\ converted_shortcuts = EmptyMap
    /\ ghostty_shortcuts = EmptyMap
    /\ config_file_paths = << >>
    /\ fs \in NestedDirs
    /\ written = << >>
    /\ pc = "start"
    /\ runs = 1

SpecNested == InitNested /\ [][Next]_vars

----------------------------------------------------------------------------
(* Claims about translation, under SpecTranslate *)

\* the binding drawn for the action copy
SrcBinding == gnome_shortcuts[COPY]

\* the accelerator string of every drawn shape
Serialized == [shape \in SrcShapes |-> Serialize(shape)]

\* the drawn shapes the binding is the accelerator string of
ShapesOfBinding == {shape \in SrcShapes : Serialized[shape] = SrcBinding}

\* the action map gives the action copy a non-empty Ghostty action
ActionMapped == COPY \in DOMAIN table.actions /\ table.actions[COPY] # << >>

\* the token map maps the token to "" or to "disabled"
Dropped(t) == t \in DOMAIN table.keys /\ table.keys[t] \in {<< >>, DISABLED}

\* what the token map says the token becomes: its value, or the token itself
MappedToken(t) == IF t \in DOMAIN table.keys THEN table.keys[t] ELSE t

RECURSIVE JoinPlus(_)
\* t1+t2+...+tn of a non-empty sequence of tokens
JoinPlus(ts) ==
    IF Len(ts) = 1 THEN ts[1] ELSE ts[1] \o <<PLUS>> \o JoinPlus(Tail(ts))

\* C1: when the action has a non-empty entry in the action map and a token
\* of the binding is mapped to "" or to "disabled", translate produces
\* nothing, whatever the other tokens are.
C1_DroppedTokenDropsBinding ==
    (pc = "converted" /\ ActionMapped)
        => \A shape \in ShapesOfBinding :
              (\E i \in DOMAIN TokensOf(shape) : Dropped(TokensOf(shape)[i]))
                  => converted_shortcuts = EmptyMap

\* C7: when the binding is the literal disabled, translate produces nothing,
\* under every mapping table, the ones without an entry for the token
\* disabled included.
C7_DisabledProducesNothing ==
    (pc = "converted" /\ SrcBinding = DISABLED) => converted_shortcuts = EmptyMap

C9_UnmappedActionProducesNothing ==
    (pc = "converted" /\ ~ActionMapped) => converted_shortcuts = EmptyMap

\* C9, its case: the action is mapped to "", and the binding alone would
\* have been translated.
C9_Witness ==
    /\ pc = "converted"
    /\ COPY \in DOMAIN table.actions
    /\ table.actions[COPY] = << >>
    /\ convert_gnome_shortcut_to_ghostty(SrcBinding, table.keys) # None
    /\ converted_shortcuts = EmptyMap

----------------------------------------------------------------------------
(* Claims about resolution, under SpecDiscover and SpecResolve *)

\* the names the include directives of a file give, in line order
IncludeNames(dir, name) ==
    LET lines == read_lines(dir, name)
    IN  Concat([i \in DOMAIN lines |-> ConfigFileCapture(lines[i])])

\* the files of the next level: for every file of a level, in order, the
\* files its include directives name that exist
NextLevel(dir, level) ==
    Concat([i \in DOMAIN level |->
              SelectSeq(IncludeNames(dir, level[i]), LAMBDA n : n \in DOMAIN dir)])

RECURSIVE LevelsFrom(_, _, _)
\* a level, then the levels below it, at most n levels in all
LevelsFrom(dir, level, n) ==
    IF level = << >> \/ n = 0 THEN << >>
    ELSE level \o LevelsFrom(dir, NextLevel(dir, level), n - 1)

\* C6: the discovery list is the root file, then the existing files its
\* include directives name in directive order, then theirs, level by level;
\* a named file that does not exist is left out and the files named after it
\* are still found.
C6_BreadthFirstDiscovery ==
    pc = "resolved"
        => config_file_paths = LevelsFrom(fs, <<CONFIG>>, Len(config_file_paths) + 1)

\* C6, its case: the root includes a and b, a and b include c, c includes
\* d, and both c are listed before the d of the first c.
C6_Witness ==
    /\ pc = "resolved"
    /\ read_lines(fs, CONFIG) = <<INC_A, INC_B_QUOTED>>
    /\ read_lines(fs, FILE_A) = <<INC_C>>
    /\ config_file_paths = <<CONFIG, FILE_A, FILE_B, FILE_C, FILE_C, FILE_D, FILE_D>>

\* the keybind directives met when the files of the list are read in list
\* order and the lines of each in line order: <<trigger, action>> each
DirectivesMet ==
    LET lines == Concat([i \in DOMAIN config_file_paths |->
                            read_lines(fs, config_file_paths[i])])
    IN  Concat([i \in DOMAIN lines |-> KeybindCapture(lines[i])])

\* C5: the resolved set maps every action that has a keybind directive to
\* the trigger of the last directive met for that action, and holds no other
\* action; a directive for another action changes nothing of it, its trigger
\* being equal or not.
C5_LastDirectiveWins ==
    pc = "resolved"
        => LET met == DirectivesMet
           IN  /\ DOMAIN ghostty_shortcuts = {met[i][2] : i \in DOMAIN met}
               /\ \A i \in DOMAIN met :
                     (\A j \in DOMAIN met : j > i => met[j][2] # met[i][2])
                         => ghostty_shortcuts[met[i][2]] = met[i][1]

\* C5, its case: copy is bound to x in the root file and to y in a file the
\* root includes, paste is bound to x too, and the set holds copy -> y and
\* paste -> x.
C5_Witness ==
    /\ pc = "resolved"
    /\ KB_X_COPY \in {read_lines(fs, CONFIG)[i] : i \in DOMAIN read_lines(fs, CONFIG)}
    /\ Len(config_file_paths) = 2
    /\ ghostty_shortcuts = [a \in {COPY, PASTE} |-> IF a = COPY THEN <<"y">> ELSE <<"x">>]

----------------------------------------------------------------------------
(* Claims about the merge and the runs of main, under Spec *)

\* the content of a file, empty when the file does not exist
ContentOf(dir, name) == IF name \in DOMAIN dir THEN dir[name] ELSE << >>

\* how many lines of the root file are config-file directives that name the
\* override file, as file discovery reads them
OverrideDirectives(dir) ==
    LET lines == read_lines(dir, CONFIG)
    IN  Cardinality({i \in DOMAIN lines : ConfigFileCapture(lines[i]) = Some(GNOME_SHORTCUTS)})

\* a step that is a merge run that succeeded
MergeSucceeds == pc = "resolved" /\ args.apply /\ pc' = "done"

\* C2: a successful merge run on a root file that holds at most one
\* directive naming the override file leaves exactly one in it, never two.
C2_OneIncludeDirective ==
    [][(MergeSucceeds /\ OverrideDirectives(fs) <= 1) => OverrideDirectives(fs') = 1]_vars

\* C3: every step leaves the content the override file had as a prefix of
\* the content it has; nothing truncates or rewrites it.
C3_OverrideOnlyAppended ==
    [][IsPrefix(ContentOf(fs, GNOME_SHORTCUTS), ContentOf(fs', GNOME_SHORTCUTS))]_vars

\* the converted shortcuts the write rule keeps: all of them without
\* avoid_conflict; with it, those whose action is no key of the effective
\* set and whose binding is the value of no key of it
Kept ==
    {a \in DOMAIN converted_shortcuts :
        \/ ~args.avoid_conflict
        \/ /\ a \notin DOMAIN ghostty_shortcuts
           /\ \A k \in DOMAIN ghostty_shortcuts :
                 ghostty_shortcuts[k] # converted_shortcuts[a]}

C10_PreviewLeavesFiles ==
    [][~args.apply => fs' = fs]_vars

\* C10, its case: a run without the apply flag has ended, with shortcuts to
\* merge, a root file to wire and the avoid-conflict flag set.
C10_Witness ==
    /\ pc = "done"
    /\ ~args.apply
    /\ args.avoid_conflict
    /\ converted_shortcuts # EmptyMap
    /\ CONFIG \in DOMAIN fs
    /\ OverrideDirectives(fs) = 0

\* C11: when the root file does not exist, no step changes a file; resolution
\* returns with the empty shortcut set; and a requested merge panics having
\* written no keybind line (so the root file is not created and the override
\* file is neither created nor modified).
C11_MissingRoot ==
    [][~Exists(fs, CONFIG) =>
          /\ fs' = fs
          /\ pc = "converted" => (pc' = "resolved" /\ ghostty_shortcuts' = EmptyMap)
          /\ (pc = "resolved" /\ args.apply) => (pc' = "panicked" /\ written' = << >>)]_vars

\* a merge of a non-empty converted set has panicked on a directory that has
\* an override file and no root file
C11_Witness ==
    /\ pc = "panicked"
    /\ ~Exists(fs, CONFIG)
    /\ Exists(fs, GNOME_SHORTCUTS)
    /\ ghostty_shortcuts = EmptyMap
    /\ converted_shortcuts # EmptyMap
    /\ written = << >>

\* C12: a successful merge appends the marker and the include directive to
\* the root file exactly when no line of the root file is an include
\* directive, quoted or not, whose file name is gnome-shortcuts.
C12_IncludeDetection ==
    [][MergeSucceeds =>
          (fs'[CONFIG] = fs[CONFIG] \o MARKER \o INCLUDE <=> OverrideDirectives(fs) = 0)]_vars

\* C13: discovery returns, and no file is listed twice.  (A list longer than
\* MaxDiscovered, where the model leaves get_config_files, already names some
\* file of the directory twice.)
C13_NoFileEnqueuedTwice ==
    /\ pc # "looping"
    /\ pc = "resolved" =>
          \A i, j \in DOMAIN config_file_paths :
              i # j => config_file_paths[i] # config_file_paths[j]

----------------------------------------------------------------------------
(* Claims about files that cannot be opened, under SpecDenied *)

\* C14: resolution returns the list of files and the shortcut set it returns
\* when every file that cannot be opened is an empty file instead.
C14_UnreadableAsEmpty ==
    pc = "resolved" =>
        /\ config_file_paths = get_config_files(Emptied(fs)).paths
        /\ ghostty_shortcuts = get_ghostty_shortcuts(Emptied(fs))

\* C14, its case: the root file includes a and then b, a cannot be opened
\* and holds a keybind directive, and the directive of b is in the set.
C14_Witness ==
    /\ pc = "resolved"
    /\ read_lines(fs, CONFIG) = <<INC_A, INC_B_QUOTED>>
    /\ Unreadable(fs) = {FILE_A}
    /\ fs[FILE_A] = Deny(Terminated(<<KB_Y_COPY>>))
    /\ config_file_paths = <<CONFIG, FILE_A, FILE_B>>
    /\ ghostty_shortcuts = Insert(EmptyMap, <<"copy">>, <<"x">>)

----------------------------------------------------------------------------
(* Claims about the form of a translated binding, under SpecPlus *)

\* the symbols of a string
Symbols(s) == {s[i] : i \in DOMAIN s}

\* a binding that is not empty, has no empty token and has the delimiter
\* neither first nor last
WellFormed(b) ==
    /\ b # << >>
    /\ Head(b) # PLUS
    /\ b[Len(b)] # PLUS
    /\ \A i \in 1..(Len(b) - 1) : ~(b[i] = PLUS /\ b[i + 1] = PLUS)

\* no token of the binding survives: every piece between the brackets is
\* empty or mapped to "" or to "disabled"
NoSurvivor ==
    LET pieces == Split(SrcBinding)
    IN  \A i \in DOMAIN pieces : pieces[i] = << >> \/ Dropped(pieces[i])

\* neither the binding nor a value of the token map holds the delimiter
PlusFree ==
    /\ PLUS \notin Symbols(SrcBinding)
    /\ \A t \in DOMAIN table.keys : PLUS \notin Symbols(table.keys[t])

\* C15 as stated: for every binding and every table, every binding
\* translate emits is well formed, and a binding without a surviving token
\* produces nothing.
C15_WellFormedBinding ==
    pc = "converted" =>
        /\ \A a \in DOMAIN converted_shortcuts : WellFormed(converted_shortcuts[a])
        /\ NoSurvivor => converted_shortcuts = EmptyMap

\* C15, amended: when neither the source binding nor a value of the token
\* map holds the delimiter "+", every binding translate emits is well
\* formed, and a binding without a surviving token produces nothing.
C15_WellFormedWithoutPlus ==
    (pc = "converted" /\ PlusFree) =>
        /\ \A a \in DOMAIN converted_shortcuts : WellFormed(converted_shortcuts[a])
        /\ NoSurvivor => converted_shortcuts = EmptyMap

\* C15, its case: two bracketed tokens, the first of them dropped, and a
\* bare one; the binding emitted has the two survivors.
C15_Witness ==
    /\ pc = "converted"
    /\ PlusFree
    /\ SrcBinding = <<"<", "c", ">", "<", "Primary", ">", "c">>
    /\ DOMAIN table.keys = {<<"Primary">>}
    /\ converted_shortcuts = [a \in {COPY_TO_CLIPBOARD} |-> <<"c", PLUS, "ctrl", PLUS, "c">>]

----------------------------------------------------------------------------
(* Further claims about the merge, under Spec *)

\* C16: a merge run leaves the root file as it is or appends the marker
\* comment and the include directive to it, nothing else; and it leaves the
\* root file as it is when a line of it already is a directive that names
\* the override file.
C16_RootOnlyExtended ==
    [][(pc = "resolved" /\ args.apply /\ Exists(fs, CONFIG)) =>
          /\ Exists(fs', CONFIG)
          /\ fs'[CONFIG] \in {fs[CONFIG], fs[CONFIG] \o MARKER \o INCLUDE}
          /\ OverrideDirectives(fs) > 0 => fs'[CONFIG] = fs[CONFIG]]_vars

\* C17: when a run with the apply and avoid-conflict flags has succeeded, a
\* second such run on the directory it left, with the same converted
\* shortcuts, writes no keybind line.
C17_SecondRunWritesNothing ==
    (pc = "done" /\ args.apply /\ args.avoid_conflict /\ get_config_files(fs).returns)
        => \A out \in update_ghostty_config(fs, converted_shortcuts,
                                            get_ghostty_shortcuts(fs), TRUE) :
              out.written = << >>

----------------------------------------------------------------------------
(* Claims about the merge on a tree, under SpecNested *)

\* C18: when a merge run without the avoid-conflict flag has succeeded,
\* resolving the directory it left gives every action of the converted
\* shortcuts the binding the converted shortcuts give it.
C18_MergedBindingsInEffect ==
    (pc = "done" /\ args.apply /\ ~args.avoid_conflict /\ get_config_files(fs).returns)
        => LET effective == get_ghostty_shortcuts(fs)
           IN  \A a \in DOMAIN converted_shortcuts :
                  /\ a \in DOMAIN effective
                  /\ effective[a] = converted_shortcuts[a]

----------------------------------------------------------------------------
(* Claims about a missing override file, under Spec *)

\* C19: when a line of the root file is a directive that names the override
\* file and the override file does not exist, no step changes a file;
\* resolution returns, without the override file in its list; and a
\* requested merge panics having written no keybind line.
C19_WiredButMissingOverride ==
    [][(OverrideDirectives(fs) > 0 /\ ~Exists(fs, GNOME_SHORTCUTS)) =>
          /\ fs' = fs
          /\ pc = "converted" =>
                /\ pc' = "resolved"
                /\ \A i \in DOMAIN config_file_paths' :
                      config_file_paths'[i] # GNOME_SHORTCUTS
          /\ (pc = "resolved" /\ args.apply) => (pc' = "panicked" /\ written' = << >>)]_vars

====
